---- MODULE Spec2Model ----
(***************************************************************************)
(* A model of the wroom live looper (ChangeCaps/wroom): the shared engine  *)
(* clock and hand-off cells (src/src/engine.rs), the clip and track data   *)
(* (src/src/clip.rs, src/src/track.rs), stream negotiation and launch and  *)
(* the two real-time callbacks (src/src/audio.rs), and the control-thread  *)
(* operations that reach them (src/src/app.rs).                            *)
(*                                                                         *)
(* Conventions.                                                            *)
(*  - Option<T> is a sequence: None == <<>>, Some(x) == <<x>>.             *)
(*  - f32 clock arithmetic (AudioEngine::beat) is computed exactly, as the *)
(*    rational sample*bpm/(60*sample_rate); comparisons are cross-         *)
(*    multiplied.  Rounding of f32 is not modelled.                        *)
(*  - Audio samples are integers; the k-th sample an input callback        *)
(*    captures has the value k (k >= 1), so 0 only ever is silence.        *)
(***************************************************************************)
EXTENDS Integers, Sequences, FiniteSets, TLC

VARIABLES
    bpm,            \* AudioEngine.bpm
    beats,          \* AudioEngine.beats
    sample,         \* AudioEngine.sample
    sample_rate,    \* AudioEngine.sample_rate
    metronome,      \* AudioEngine.metronome
    engine_tracks,  \* AudioEngine.tracks        (hand-off cell, Option<Tracks>)
    recorded_clip,  \* AudioEngine.recorded_clip (hand-off cell, Option<Clip>)
    host,           \* the audio back-end as cpal reports it (devices, defaults)
    settings,       \* Audio.settings (AudioSettings)
    tracks,         \* Audio.tracks
    clip,           \* Audio.clip
    error,          \* Audio.error
    streams,        \* the stream pairs alive: "held" by Audio.input_stream /
                    \* output_stream, "new" inside a running launch_stream call
    ctrl,           \* the control thread: where it is, what it last did
    hist            \* history of hand-off publishes and takes (observations only)

vars == <<bpm, beats, sample, sample_rate, metronome, engine_tracks, recorded_clip,
          host, settings, tracks, clip, error, streams, ctrl, hist>>

engine_vars == <<bpm, beats, sample, sample_rate, metronome, engine_tracks, recorded_clip>>

----------------------------------------------------------------------------
(* Bounds of the exploration. *)

\* output-callback sample iterations explored per stream pair (Spec)
MaxIter == 3

\* input samples captured per stream pair (Spec)
MaxPush == 1

\* control-thread operations explored after construction (Spec)
MaxOps == 2

----------------------------------------------------------------------------
(* Option<T> *)

None == <<>>

Some(x) == <<x>>

Unwrap(o) == o[1]

Min(a, b) == IF a < b THEN a ELSE b

Max(a, b) == IF a > b THEN a ELSE b

(* f32 values: a sample value is the fraction <<numerator, denominator>> in *)
(* lowest terms with a positive denominator; <<0, 0>> is a non-finite value *)
(* (NaN).  The arithmetic is exact, the rounding of f32 is not modelled.    *)

NaN == <<0, 0>>

RECURSIVE GCD(_, _)
GCD(a, b) == IF b = 0 THEN a ELSE GCD(b, a % b)

Frac(n, d) ==
    IF d = 0 THEN NaN
    ELSE LET g == GCD(IF n < 0 THEN -n ELSE n, d)
         IN  <<n \div g, d \div g>>

Abs(n) == IF n < 0 THEN -n ELSE n

\* f32 addition, over the least common denominator
FracAdd(x, y) ==
    IF x[2] = 0 \/ y[2] = 0 THEN NaN
    ELSE LET g == GCD(x[2], y[2])
         IN  Frac(x[1] * (y[2] \div g) + y[1] * (x[2] \div g), (x[2] \div g) * y[2])

\* f32 multiplication, common factors taken out before the products
FracMul(x, y) ==
    IF x[2] = 0 \/ y[2] = 0 THEN NaN
    ELSE LET g == GCD(Abs(x[1]), y[2])
             h == GCD(Abs(y[1]), x[2])
         IN  Frac((x[1] \div g) * (y[1] \div h), (x[2] \div h) * (y[2] \div g))

----------------------------------------------------------------------------
(* clip.rs *)

\* Clip::new
NewClip(channels, rate, samples) ==
    [channels |-> channels, sample_rate |-> rate, samples |-> samples]

\* Clip::frame_count: samples.len() / channels (integer division)
frame_count(c) == Len(c.samples) \div c.channels

\* Clip::fade_factor, line 31: let fade_samples = frame_count * channels / 1000
fade_samples_of(c) == (frame_count(c) * c.channels) \div 1000

\* Clip::fade_factor, as the fraction <<numerator, denominator>> of the u64
\* operands the code divides as f32.  Past the end (index > frame_count) the
\* u64 subtraction frame_count - index wraps; the negative numerator stands for
\* the wrapped value 2^64 + (frame_count - index).  Denominator 0 (a clip of
\* fewer than 1000 samples) makes the f32 quotient infinite.
fade_factor(c, index) ==
    LET fc == frame_count(c)
        fade_samples == fade_samples_of(c)
    IN  IF index < fade_samples THEN <<index, fade_samples>>
        ELSE IF index > fc - fade_samples THEN <<fc - index, fade_samples>>
        ELSE <<1, 1>>

\* Clip::fade_factor, line 35: the u64 subtraction frame_count - index
\* overflows.  A build with overflow checks panics there, one without wraps.
fade_overflows(c, index) ==
    LET fc == frame_count(c)
        fade_samples == fade_samples_of(c)
    IN  index >= fade_samples /\ index > fc - fade_samples /\ index > fc

\* Clip::sample: the stored value (0.0 out of range) times the fade factor.
\* An infinite fade factor only meets the stored value 0.0 of an index out of
\* range: 0.0 * infinity = NaN.
clip_sample(c, index, channel) ==
    LET i == index * c.channels + channel
        stored == IF i < Len(c.samples) THEN c.samples[i + 1] ELSE <<0, 1>>
        f == fade_factor(c, index)
    IN  IF f[2] = 0 THEN NaN ELSE FracMul(stored, f)

\* a variant of Clip::resample that rounds the new frame count up
clip_resample_round_up(c, rate) ==
    LET new_frame_count == (frame_count(c) * rate + c.sample_rate - 1) \div c.sample_rate
        new_sample(k) ==
            LET frame == (k - 1) \div c.channels
                channel == (k - 1) % c.channels
                index == (frame * c.sample_rate) \div rate
                fraction == Frac((frame * c.sample_rate) % rate, rate)
                smp == clip_sample(c, index, channel)
                next_sample == clip_sample(c, index + 1, channel)
            IN  FracAdd(smp, FracMul(FracAdd(next_sample, FracMul(smp, <<-1, 1>>)),
                                     fraction))
    IN  NewClip(c.channels, rate,
                [k \in 1..(new_frame_count * c.channels) |-> new_sample(k)])

\* Clip::resample: linear interpolation between the faded values
\* self.sample(index, ..) and self.sample(index + 1, ..) at
\* point = frame * self.sample_rate / sample_rate
clip_resample(c, rate) ==
    LET new_frame_count == (frame_count(c) * rate) \div c.sample_rate
        new_sample(k) ==
            LET frame == (k - 1) \div c.channels
                channel == (k - 1) % c.channels
                index == (frame * c.sample_rate) \div rate
                fraction == Frac((frame * c.sample_rate) % rate, rate)
                smp == clip_sample(c, index, channel)
                next_sample == clip_sample(c, index + 1, channel)
            IN  FracAdd(smp, FracMul(FracAdd(next_sample, FracMul(smp, <<-1, 1>>)),
                                     fraction))
    IN  NewClip(c.channels, rate,
                [k \in 1..(new_frame_count * c.channels) |-> new_sample(k)])

----------------------------------------------------------------------------
(* track.rs *)

\* Track::default
DefaultTrack == [clip |-> None, volume |-> 100, muted |-> FALSE]

\* Tracks::default: vec![Track::default(); 10]
TrackCount == 10

DefaultTracks == [i \in 1..TrackCount |-> DefaultTrack]

\* a variant of volume_factor that does not look at the mute flag
volume_factor_unmuted(t) == t.volume

\* Track::volume_factor, in hundredths (volume as f32 / 100.0, 0.0 when muted)
volume_factor(t) == IF ~t.muted THEN t.volume ELSE 0

\* Track::toggle_mute
toggle_mute(t) == [t EXCEPT !.muted = ~t.muted]

\* Track::resample
track_resample(t, rate) ==
    IF t.clip = None THEN t
    ELSE [t EXCEPT !.clip = Some(clip_resample(Unwrap(@), rate))]

\* Tracks::resample
tracks_resample(tr, rate) == [n \in 1..Len(tr) |-> track_resample(tr[n], rate)]

----------------------------------------------------------------------------
(* engine.rs: the clock *)

\* AudioEngine::beat() = sample / sample_rate * bpm / 60 as the fraction
\* <<sample * bpm, 60 * sample_rate>> of the three atomic loads
beat(smp, rate, b) == <<smp * b, 60 * rate>>

\* a variant of is_on_beat that is also true shortly before a beat
is_on_beat_near(smp, rate, b) ==
    LET bt == beat(smp, rate, b)
    IN  /\ bt[2] > 0
        /\ \/ (bt[1] % bt[2]) < (bt[2] + 999) \div 1000
           \/ bt[2] - (bt[1] % bt[2]) < (bt[2] + 999) \div 1000

\* AudioEngine::is_on_beat: beat() % 1.0 < 0.001.  With sample_rate = 0 the
\* f32 beat is NaN or infinite and the comparison is false.
is_on_beat(smp, rate, b) ==
    LET bt == beat(smp, rate, b)
    IN  /\ bt[2] > 0
        /\ (bt[1] % bt[2]) < (bt[2] + 999) \div 1000

\* a variant of should_loop that compares with > where the code has >=
should_loop_after(bt, bts) ==
    IF bt[2] > 0 THEN bt[1] > bts * bt[2] ELSE bt[1] > 0

\* AudioEngine::should_loop: beat() >= beats as f32.  With sample_rate = 0 the
\* f32 beat is +infinity when sample > 0 and bpm > 0, and NaN otherwise.
should_loop(bt, bts) ==
    IF bt[2] > 0 THEN bt[1] >= bts * bt[2] ELSE bt[1] > 0

----------------------------------------------------------------------------
(* audio.rs: devices and negotiation.                                      *)
(* A device is [name, configs, default_config]: configs are the supported  *)
(* stream configurations cpal reports, each [min_sample_rate,              *)
(* max_sample_rate, buffer_size] with buffer_size <<min, max>> (Range) or  *)
(* <<>> (Unknown); default_config is Some(channels) or None when           *)
(* default_input_config / default_output_config returns Err.               *)

SAMPLE_RATES == <<44100, 48000, 88200, 96000, 176400, 192000>>

BUFFER_SIZES == <<32, 64, 128, 256, 512, 1024, 2048, 4096, 8192, 16384>>

\* position(): the 0-based index of the first element among the wanted ones, or None
Position(seq, wanted) ==
    LET hits == {i \in 1..Len(seq) : seq[i] \in wanted}
    IN  IF hits = {} THEN None
        ELSE Some((CHOOSE i \in hits : \A j \in hits : i <= j) - 1)

\* device_eq: equal names
device_eq(a, b) == a.name = b.name

\* device_index
device_index(devices, device) ==
    IF device = None THEN None
    ELSE LET same == {devices[i] : i \in {j \in 1..Len(devices) :
                                              device_eq(devices[j], Unwrap(device))}}
         IN  Position(devices, same)

\* input_sample_rates / output_sample_rates: min..max, a half-open Range<u32>
device_sample_rates(device) ==
    [i \in 1..Len(device.configs) |->
        <<device.configs[i].min_sample_rate, device.configs[i].max_sample_rate>>]

\* input_buffer_sizes / output_buffer_sizes
device_buffer_sizes(device) ==
    [i \in 1..Len(device.configs) |-> device.configs[i].buffer_size]

\* sample_rate_supported: any(|range| range.contains(&sample_rate))
sample_rate_supported(ranges, rate) ==
    \E i \in 1..Len(ranges) : ranges[i][1] <= rate /\ rate < ranges[i][2]

\* a variant whose range leaves its maximum out
buffer_size_supported_open(sizes, size) ==
    \E i \in 1..Len(sizes) :
        IF sizes[i] = <<>> THEN TRUE
        ELSE size >= sizes[i][1] /\ size < sizes[i][2]

\* buffer_size_supported
buffer_size_supported(sizes, size) ==
    \E i \in 1..Len(sizes) :
        IF sizes[i] = <<>> THEN TRUE
        ELSE size >= sizes[i][1] /\ size <= sizes[i][2]

\* fn sample_rates: the ladder values every selected device supports, in
\* ladder order (sort and dedup leave an ascending, duplicate-free list as is)
sample_rates(input_device, output_device) ==
    LET Ok(r) ==
            /\ input_device # None \/ output_device # None
            /\ input_device # None =>
                   sample_rate_supported(device_sample_rates(Unwrap(input_device)), r)
            /\ output_device # None =>
                   sample_rate_supported(device_sample_rates(Unwrap(output_device)), r)
    IN  SelectSeq(SAMPLE_RATES, Ok)

\* fn buffer_sizes
buffer_sizes(input_device, output_device) ==
    LET Ok(b) ==
            /\ input_device # None \/ output_device # None
            /\ input_device # None =>
                   buffer_size_supported(device_buffer_sizes(Unwrap(input_device)), b)
            /\ output_device # None =>
                   buffer_size_supported(device_buffer_sizes(Unwrap(output_device)), b)
    IN  SelectSeq(BUFFER_SIZES, Ok)

\* AudioSettings::get_input_device
get_input_device(s) ==
    IF s.input_device = None THEN None
    ELSE Some(s.input_devices[Unwrap(s.input_device) + 1])

\* AudioSettings::get_output_device
get_output_device(s) ==
    IF s.output_device = None THEN None
    ELSE Some(s.output_devices[Unwrap(s.output_device) + 1])

\* AudioSettings::get_sample_rate
get_sample_rate(s) ==
    IF s.sample_rate = None THEN None
    ELSE Some(s.sample_rates[Unwrap(s.sample_rate) + 1])

\* AudioSettings::get_buffer_size
get_buffer_size(s) ==
    IF s.buffer_size = None THEN None
    ELSE Some(s.buffer_sizes[Unwrap(s.buffer_size) + 1])

\* a variant that always selects the lowest rate
query_default_sample_rate_first(s) ==
    [s EXCEPT !.sample_rate = IF Len(s.sample_rates) > 0 THEN Some(0) ELSE None]

\* AudioSettings::query_default_sample_rate
query_default_sample_rate(s) ==
    LET index == Position(s.sample_rates, {48000})
    IN  [s EXCEPT !.sample_rate =
            IF index # None THEN index
            ELSE IF Len(s.sample_rates) > 0 THEN Some(0)
            ELSE None]

\* AudioSettings::query_sample_rates
query_sample_rates(s) ==
    query_default_sample_rate(
        [s EXCEPT !.sample_rates = sample_rates(get_input_device(s), get_output_device(s))])

\* AudioSettings::query_default_buffer_size
query_default_buffer_size(s) ==
    LET index == Position(s.buffer_sizes, {128})
    IN  [s EXCEPT !.buffer_size =
            IF index # None THEN index
            ELSE IF Len(s.buffer_sizes) > 0 THEN Some(0)
            ELSE None]

\* AudioSettings::query_buffer_sizes
query_buffer_sizes(s) ==
    query_default_buffer_size(
        [s EXCEPT !.buffer_sizes = buffer_sizes(get_input_device(s), get_output_device(s))])

\* AudioSettings::query_default_devices
query_default_devices(s, h) ==
    query_buffer_sizes(query_sample_rates(
        [s EXCEPT !.input_device = device_index(s.input_devices, h.default_input_device),
                  !.output_device = device_index(s.output_devices, h.default_output_device)]))

\* AudioSettings::query_devices
query_devices(s, h) ==
    query_default_devices(
        [s EXCEPT !.input_devices = h.input_devices,
                  !.output_devices = h.output_devices], h)

\* rotate_input_device and the three like it, lines 304-309: the index moved
\* by offset around a list of len entries, 0 when nothing was selected
rotate_index(index, offset, len) ==
    IF index # None THEN Some((Unwrap(index) + offset) % len)
    ELSE IF len > 0 THEN Some(0)
    ELSE None

\* AudioSettings::rotate_input_device
rotate_input_device(s, offset) ==
    query_sample_rates(
        [s EXCEPT !.input_device = rotate_index(@, offset, Len(s.input_devices))])

\* AudioSettings::rotate_output_device
rotate_output_device(s, offset) ==
    query_sample_rates(
        [s EXCEPT !.output_device = rotate_index(@, offset, Len(s.output_devices))])

\* AudioSettings::rotate_sample_rate
rotate_sample_rate(s, offset) ==
    [s EXCEPT !.sample_rate = rotate_index(@, offset, Len(s.sample_rates))]

\* a variant of rotate_buffer_size that moves the index without wrapping it
rotate_buffer_size_unwrapped(s, offset) ==
    [s EXCEPT !.buffer_size =
        IF @ # None THEN Some(Unwrap(@) + offset)
        ELSE IF Len(s.buffer_sizes) > 0 THEN Some(0)
        ELSE None]

\* AudioSettings::rotate_buffer_size
rotate_buffer_size(s, offset) ==
    [s EXCEPT !.buffer_size = rotate_index(@, offset, Len(s.buffer_sizes))]

\* AudioSettings::rotate_host: the host offset places on in available_hosts
rotate_host(available, h, offset) ==
    LET host_index == Unwrap(Position(available, {h}))
    IN  available[((host_index + offset) % Len(available)) + 1]

\* AudioSettings::new
NewSettings ==
    [input_devices |-> <<>>, output_devices |-> <<>>,
     input_device |-> None, output_device |-> None,
     sample_rates |-> <<>>, sample_rate |-> None,
     buffer_sizes |-> <<>>, buffer_size |-> None,
     delay |-> 15]

----------------------------------------------------------------------------
(* audio.rs: a stream pair, as launch_stream builds it.  The record holds  *)
(* what the two callback closures capture and own.                         *)

\* Zeros(n): the n values 0.0 pushed into the ring buffer before the streams start
Zeros(n) == [i \in 1..n |-> 0]

\* launch_stream, line 401: input_channels as u32 * sample_rate.0 * self.delay / 1000
ring_size(input_channels, rate, delay) == (input_channels * rate * delay) \div 1000

\* launch_stream, line 402: HeapRb::new(buffer_size as usize * 2)
ring_capacity(buffer_size) == buffer_size * 2

\* a variant of the pre-fill that pushes one zero fewer
prefill_short(buffer_size) == Zeros(buffer_size - 1)

\* launch_stream, lines 404-406: for _ in 0..buffer_size { prod.push(0.0).unwrap() }
prefill(buffer_size) == Zeros(buffer_size)

\* launch_stream, lines 401-406 and 424-427: the ring buffer and the output
\* closure's state.  id numbers the launch_streams call that built the pair.
NewPair(id, input_channels, rate, delay, tr) ==
    LET buffer_size == ring_size(input_channels, rate, delay)
    IN  [id |-> id,
         input_channels |-> input_channels,
         sample_rate |-> rate,
         buffer_size |-> buffer_size,
         cap |-> ring_capacity(buffer_size),
         ring |-> prefill(buffer_size),
         input_playing |-> FALSE,
         output_playing |-> FALSE,
         tracks |-> tr,
         recording |-> <<>>,
         channel |-> 0,
         last_feedback |-> 0,
         \* position of the output callback inside the per-sample loop body,
         \* and the values it holds between two of its steps
         pc |-> "on_beat",
         on_beat |-> FALSE,
         bt |-> <<0, 1>>,
         loop_beats |-> 0,
         looped |-> FALSE,
         target |-> None,
         \* observations: samples captured and dropped by the input callback,
         \* values accepted into the ring after the zeros, values popped,
         \* whether the last pop found the ring empty, iterations begun
         pushed |-> 0,
         dropped |-> 0,
         accepted |-> <<>>,
         popped |-> <<>>,
         underrun |-> FALSE,
         iters |-> 0]

\* a/b + c/d on fractions <<numerator, denominator>>; denominator 0 is NaN
RECURSIVE track_sum(_, _, _, _)
\* get_sample, lines 494-503: the contribution of tracks 1..n, in hundredths
\* (volume_factor is volume/100), as a fraction
track_sum(tr, n, sample_index, channel) ==
    IF n = 0 THEN <<0, 1>>
    ELSE LET rest == track_sum(tr, n - 1, sample_index, channel)
             t == tr[n]
         IN  IF t.clip = None THEN rest
             ELSE LET cs == clip_sample(Unwrap(t.clip), sample_index, channel)
                  IN  FracAdd(rest, FracMul(cs, <<volume_factor(t), 1>>))

\* fn get_sample: the output sample as its three summands.  metronome is
\* Some(beat().fract()) (the argument of fn metronome) when the flag is on.
get_sample(tr, channel, feedback) ==
    LET bt == beat(sample, sample_rate, bpm)
        beat_offset == IF bt[2] > 0 THEN <<bt[1] % bt[2], bt[2]>> ELSE <<0, 0>>
    IN  [feedback |-> feedback,
         metronome |-> IF metronome THEN Some(beat_offset) ELSE None,
         tracks |-> track_sum(tr, Len(tr), sample, channel),
         sample_index |-> sample,
         channel |-> channel]

----------------------------------------------------------------------------
(* engine.rs: the hand-off cells, crossbeam AtomicCell<Option<T>>.  A       *)
(* stored value carries the number n of its publish (an observation, not    *)
(* program state): hist.tpub / hist.cpub count the stores into              *)
(* AudioEngine.tracks / recorded_clip, hist.ttaken / hist.ctaken list the   *)
(* numbers of the values the takes returned.                                *)

Slots == {"held", "new"}

\* a variant of AtomicCell::store that keeps a value not yet taken
cell_store_first(cell, v) == IF cell = None THEN v ELSE cell

\* AtomicCell::store: the new content of the cell
cell_store(cell, v) == v

\* AtomicCell::take: the value returned, and the content left behind
cell_take(cell) == [value |-> cell, cell |-> None]

\* AudioEngine::set_tracks(Some(tr))
set_tracks(tr) ==
    /\ engine_tracks' = cell_store(engine_tracks, Some([tracks |-> tr, n |-> hist.tpub + 1]))
    /\ hist' = [hist EXCEPT !.tpub = @ + 1]

\* AudioEngine::set_recorded_clip(Some(c))
set_recorded_clip(c) ==
    /\ recorded_clip' = cell_store(recorded_clip, Some([clip |-> c, n |-> hist.cpub + 1]))
    /\ hist' = [hist EXCEPT !.cpub = @ + 1]

\* AudioEngine::take_tracks
take_tracks == cell_take(engine_tracks)

\* Audio::update_tracks: publish a copy of Audio.tracks as it is after the edit
update_tracks(tr) == set_tracks(tr)

----------------------------------------------------------------------------
(* audio.rs: the input callback (lines 414-418), one captured sample a step *)

\* a variant of the push that appends whether or not there is room
ring_push_grow(p, v) ==
    [p EXCEPT !.ring = Append(@, v), !.accepted = Append(@, v), !.pushed = @ + 1]

\* prod.push(sample): appended when there is room, dropped when full
ring_push(p, v) ==
    IF Len(p.ring) < p.cap
    THEN [p EXCEPT !.ring = Append(@, v), !.accepted = Append(@, v), !.pushed = @ + 1]
    ELSE [p EXCEPT !.dropped = @ + 1, !.pushed = @ + 1]

InputCallback(s, maxPush) ==
    /\ streams[s] # None
    /\ LET p == Unwrap(streams[s])
       IN  /\ p.input_playing
           /\ p.pushed < maxPush
           /\ streams' = [streams EXCEPT ![s] = Some(ring_push(p, p.pushed + 1))]
    /\ UNCHANGED <<engine_vars, host, settings, tracks, clip, error, ctrl, hist>>

----------------------------------------------------------------------------
(* audio.rs: the output callback (lines 429-463), the body of               *)
(* `for target in data` in its steps between accesses to shared state.      *)

Running(s, at) ==
    /\ streams[s] # None
    /\ Unwrap(streams[s]).output_playing
    /\ Unwrap(streams[s]).pc = at

SetPair(s, p) == streams' = [streams EXCEPT ![s] = Some(p)]

\* a variant of OutOnBeat that goes on to take_tracks whatever is_on_beat says
OutOnBeatAlways(s, maxIter) ==
    /\ Running(s, "on_beat")
    /\ LET p == Unwrap(streams[s])
           on == is_on_beat(sample, sample_rate, bpm)
       IN  /\ p.iters < maxIter
           /\ SetPair(s, [p EXCEPT !.pc = "take", !.on_beat = on, !.iters = @ + 1])
    /\ UNCHANGED <<engine_vars, host, settings, tracks, clip, error, ctrl, hist>>

\* a variant of OutOnBeat that never goes on to take_tracks
OutOnBeatNever(s, maxIter) ==
    /\ Running(s, "on_beat")
    /\ LET p == Unwrap(streams[s])
           on == is_on_beat(sample, sample_rate, bpm)
       IN  /\ p.iters < maxIter
           /\ SetPair(s, [p EXCEPT !.pc = "advance", !.on_beat = on, !.iters = @ + 1])
    /\ UNCHANGED <<engine_vars, host, settings, tracks, clip, error, ctrl, hist>>

\* line 431: if engine.is_on_beat()
OutOnBeat(s, maxIter) ==
    /\ Running(s, "on_beat")
    /\ LET p == Unwrap(streams[s])
           on == is_on_beat(sample, sample_rate, bpm)
       IN  /\ p.iters < maxIter
           /\ SetPair(s, [p EXCEPT !.pc = IF on THEN "take" ELSE "advance",
                                   !.on_beat = on,
                                   !.iters = @ + 1])
    /\ UNCHANGED <<engine_vars, host, settings, tracks, clip, error, ctrl, hist>>

\* lines 433-435: if let Some(new_tracks) = engine.take_tracks() { tracks = new_tracks }
OutTake(s) ==
    /\ Running(s, "take")
    /\ LET p == Unwrap(streams[s])
           taken == take_tracks
           new_tracks == taken.value
       IN  /\ engine_tracks' = taken.cell
           /\ IF new_tracks # None
              THEN /\ SetPair(s, [p EXCEPT !.tracks = Unwrap(new_tracks).tracks,
                                           !.pc = "advance"])
                   /\ hist' = [hist EXCEPT !.ttaken = Append(@, Unwrap(new_tracks).n)]
              ELSE /\ SetPair(s, [p EXCEPT !.pc = "advance"])
                   /\ hist' = hist
    /\ UNCHANGED <<bpm, beats, sample, sample_rate, metronome, recorded_clip,
                   host, settings, tracks, clip, error, ctrl>>

\* a variant of the pop that falls back to 0.0 where the code has last_feedback
ring_pop_zero(p) ==
    LET empty == p.ring = <<>>
        feedback == IF empty THEN 0 ELSE Head(p.ring)
    IN  [p EXCEPT !.ring = IF empty THEN <<>> ELSE Tail(@),
                  !.popped = IF empty THEN @ ELSE Append(@, feedback),
                  !.underrun = empty,
                  !.last_feedback = feedback,
                  !.recording = Append(@, feedback)]

\* lines 445-447: cons.pop().unwrap_or(last_feedback), kept and recorded
ring_pop(p) ==
    LET empty == p.ring = <<>>
        feedback == IF empty THEN p.last_feedback ELSE Head(p.ring)
    IN  [p EXCEPT !.ring = IF empty THEN <<>> ELSE Tail(@),
                  !.popped = IF empty THEN @ ELSE Append(@, feedback),
                  !.underrun = empty,
                  !.last_feedback = feedback,
                  !.recording = Append(@, feedback)]

\* lines 438-447: the channel counter, the frame counter, the pop
OutAdvance(s) ==
    /\ Running(s, "advance")
    /\ LET p == Unwrap(streams[s])
           wrap == p.channel + 1 = p.input_channels
           q == [p EXCEPT !.channel = IF wrap THEN 0 ELSE @ + 1]
       IN  /\ sample' = IF wrap THEN sample + 1 ELSE sample
           /\ SetPair(s, [ring_pop(q) EXCEPT !.pc = "mix"])
    /\ UNCHANGED <<bpm, beats, sample_rate, metronome, engine_tracks, recorded_clip,
                   host, settings, tracks, clip, error, ctrl, hist>>

\* get_sample, line 499: some track's clip.sample overflows at the position
mix_overflows(tr) ==
    \E n \in 1..Len(tr) :
        tr[n].clip # None /\ fade_overflows(Unwrap(tr[n].clip), sample)

\* line 449: *target = get_sample(&engine, &tracks, channel, feedback); where
\* the subtraction in fade_factor overflows the callback either goes on with
\* the wrapped value or panics ("panicked": it does not run again)
OutMix(s) ==
    /\ Running(s, "mix")
    /\ LET p == Unwrap(streams[s])
       IN  \E wraps \in (IF mix_overflows(p.tracks) THEN BOOLEAN ELSE {TRUE}) :
              SetPair(s, IF wraps
                         THEN [p EXCEPT !.target = Some(get_sample(p.tracks, p.channel,
                                                                   p.last_feedback)),
                                        !.pc = "loop"]
                         ELSE [p EXCEPT !.pc = "panicked"])
    /\ UNCHANGED <<engine_vars, host, settings, tracks, clip, error, ctrl, hist>>

\* line 451, left operand of should_loop: self.beat()
OutLoopBeat(s) ==
    /\ Running(s, "loop")
    /\ LET p == Unwrap(streams[s])
       IN  SetPair(s, [p EXCEPT !.bt = beat(sample, sample_rate, bpm), !.pc = "loop_beats"])
    /\ UNCHANGED <<engine_vars, host, settings, tracks, clip, error, ctrl, hist>>

\* line 451, right operand of should_loop: self.beats(), and the comparison
OutLoopBeats(s) ==
    /\ Running(s, "loop_beats")
    /\ LET p == Unwrap(streams[s])
           loop == should_loop(p.bt, beats)
       IN  SetPair(s, [p EXCEPT !.loop_beats = beats,
                                !.looped = loop,
                                !.pc = IF loop THEN "reset" ELSE "on_beat"])
    /\ UNCHANGED <<engine_vars, host, settings, tracks, clip, error, ctrl, hist>>

\* line 452: engine.set_sample(0)
OutReset(s) ==
    /\ Running(s, "reset")
    /\ sample' = 0
    /\ SetPair(s, [Unwrap(streams[s]) EXCEPT !.pc = "publish"])
    /\ UNCHANGED <<bpm, beats, sample_rate, metronome, engine_tracks, recorded_clip,
                   host, settings, tracks, clip, error, ctrl, hist>>

\* a variant of the Clip built that leaves out the first recorded value
recorded_without_first(p) ==
    NewClip(p.input_channels, p.sample_rate,
            [k \in 1..(Len(p.recording) - 1) |-> <<p.recording[k + 1], 1>>])

\* lines 454-458: the Clip built from mem::take(&mut recording)
recorded(p) ==
    NewClip(p.input_channels, p.sample_rate,
            [k \in 1..Len(p.recording) |-> <<p.recording[k], 1>>])

\* lines 454-460: engine.set_recorded_clip(Some(clip))
OutPublish(s) ==
    /\ Running(s, "publish")
    /\ LET p == Unwrap(streams[s])
       IN  /\ set_recorded_clip(recorded(p))
           /\ SetPair(s, [p EXCEPT !.recording = <<>>, !.pc = "on_beat"])
    /\ UNCHANGED <<bpm, beats, sample, sample_rate, metronome, engine_tracks,
                   host, settings, tracks, clip, error, ctrl>>

----------------------------------------------------------------------------
(* audio.rs: AudioSettings::launch_stream and Audio::launch_streams, in the *)
(* steps of the control thread that other threads can tell apart.           *)
(* ctrl.pc: "new" in Audio::new before its launch_streams call; "idle"      *)
(* between two operations; "launch_output", "launch_play",                  *)
(* "launch_play_output" and "launch_swap" inside launch_streams;            *)
(* "panicked" once the control thread has panicked, which ends the process. *)
(* ctrl.ops counts the operations begun after construction, ctrl.launches   *)
(* the calls of launch_streams.                                             *)

\* a variant of set_sample_rate that leaves the field as it is
set_sample_rate_kept(current, rate) == current

\* AudioEngine::set_sample_rate: the value the field holds afterwards
set_sample_rate(current, rate) == rate

\* a variant of launch_check without the comparison of the channel counts
launch_check_lax(s) ==
    IF get_input_device(s) = None THEN "no input device"
    ELSE IF get_output_device(s) = None THEN "no output device"
    ELSE IF get_sample_rate(s) = None THEN "no sample rate"
    ELSE IF \/ Unwrap(get_input_device(s)).default_config = None
            \/ Unwrap(get_output_device(s)).default_config = None
         THEN "panic"
    ELSE "ok"

\* launch_stream, lines 373-399: the error it returns before it builds
\* anything, "panic" where an unwrap() fails, or "ok"
launch_check(s) ==
    IF get_input_device(s) = None THEN "no input device"
    ELSE IF get_output_device(s) = None THEN "no output device"
    ELSE IF get_sample_rate(s) = None THEN "no sample rate"
    ELSE IF \/ Unwrap(get_input_device(s)).default_config = None
            \/ Unwrap(get_output_device(s)).default_config = None
         THEN "panic"
    ELSE IF Unwrap(Unwrap(get_input_device(s)).default_config)
                # Unwrap(Unwrap(get_output_device(s)).default_config)
         THEN "input and output channels must match"
    ELSE "ok"

\* a panic of the control thread ends the process: every stream is dropped
Panic(c) ==
    /\ ctrl' = [c EXCEPT !.pc = "panicked"]
    /\ streams' = [s \in Slots |-> None]

\* launch_streams, line 562: Err(err) => self.error = Some(err); whatever
\* launch_stream had built is dropped on its return
LaunchFailed(c, err) ==
    /\ error' = Some(err)
    /\ streams' = [streams EXCEPT !["new"] = None]
    /\ ctrl' = [c EXCEPT !.pc = "idle"]

\* launch_stream, lines 373-427, entered from launch_streams: the checks, the
\* ring buffer, build_input_stream (which the back-end may refuse),
\* engine.set_sample_rate and the output closure's state
LaunchBegin(c0) ==
    LET outcome == launch_check(settings)
        c == [c0 EXCEPT !.launches = @ + 1]
    IN  IF outcome = "panic" THEN
            /\ Panic(c)
            /\ UNCHANGED <<engine_vars, host, settings, tracks, clip, error, hist>>
        ELSE IF outcome # "ok" THEN
            /\ LaunchFailed(c, outcome)
            /\ UNCHANGED <<engine_vars, host, settings, tracks, clip, hist>>
        ELSE
            \E built \in BOOLEAN :
                IF ~built THEN
                    /\ LaunchFailed(c, "build input stream")
                    /\ UNCHANGED <<engine_vars, host, settings, tracks, clip, hist>>
                ELSE
                    LET channels == Unwrap(Unwrap(get_input_device(settings)).default_config)
                        rate == Unwrap(get_sample_rate(settings))
                    IN  /\ sample_rate' = set_sample_rate(sample_rate, rate)
                        /\ streams' = [streams EXCEPT !["new"] =
                               Some(NewPair(c.launches, channels, rate, settings.delay, tracks))]
                        /\ ctrl' = [c EXCEPT !.pc = "launch_output"]
                        /\ UNCHANGED <<bpm, beats, sample, metronome, engine_tracks,
                                       recorded_clip, host, settings, tracks, clip,
                                       error, hist>>

\* Audio::new, line 534: the constructor's call of launch_streams
NewLaunch ==
    /\ ctrl.pc = "new"
    /\ LaunchBegin(ctrl)

\* the control thread takes up its next operation
Begin(maxOps) ==
    /\ ctrl.pc = "idle"
    /\ ctrl.ops < maxOps

Counted == [ctrl EXCEPT !.ops = @ + 1]

\* App::key, lines 122-124: F5 calls launch_streams
KeyF5(maxOps) ==
    /\ Begin(maxOps)
    /\ LaunchBegin(Counted)

\* launch_stream, line 465: build_output_stream(...)?
LaunchBuildOutput ==
    /\ ctrl.pc = "launch_output"
    /\ \E built \in BOOLEAN :
          IF built
          THEN /\ ctrl' = [ctrl EXCEPT !.pc = "launch_play"]
               /\ UNCHANGED <<error, streams>>
          ELSE LaunchFailed(ctrl, "build output stream")
    /\ UNCHANGED <<engine_vars, host, settings, tracks, clip, hist>>

\* launch_stream, line 467: input_stream.play()?
LaunchPlayInput ==
    /\ ctrl.pc = "launch_play"
    /\ \E played \in BOOLEAN :
          IF played
          THEN /\ streams' = [streams EXCEPT !["new"] =
                      Some([Unwrap(@) EXCEPT !.input_playing = TRUE])]
               /\ ctrl' = [ctrl EXCEPT !.pc = "launch_play_output"]
               /\ UNCHANGED error
          ELSE LaunchFailed(ctrl, "play input stream")
    /\ UNCHANGED <<engine_vars, host, settings, tracks, clip, hist>>

\* launch_stream, line 468: output_stream.play()?
LaunchPlayOutput ==
    /\ ctrl.pc = "launch_play_output"
    /\ \E played \in BOOLEAN :
          IF played
          THEN /\ streams' = [streams EXCEPT !["new"] =
                      Some([Unwrap(@) EXCEPT !.output_playing = TRUE])]
               /\ ctrl' = [ctrl EXCEPT !.pc = "launch_swap"]
               /\ UNCHANGED error
          ELSE LaunchFailed(ctrl, "play output stream")
    /\ UNCHANGED <<engine_vars, host, settings, tracks, clip, hist>>

\* a Stream is dropped between two runs of its callback's loop body
Droppable(o) == IF o = None THEN TRUE ELSE Unwrap(o).pc \in {"on_beat", "panicked"}

\* a variant of LaunchSwap in which the new callbacks go on with the ring
\* buffer of the pair they replace
LaunchSwapKeepRing ==
    /\ ctrl.pc = "launch_swap"
    /\ Droppable(streams["held"])
    /\ streams' = [streams EXCEPT
          !["held"] = IF streams["held"] = None THEN streams["new"]
                      ELSE Some([Unwrap(streams["new"]) EXCEPT
                                    !.ring = Unwrap(streams["held"]).ring]),
          !["new"] = None]
    /\ error' = None
    /\ ctrl' = [ctrl EXCEPT !.pc = "idle"]
    /\ UNCHANGED <<engine_vars, host, settings, tracks, clip, hist>>

\* launch_streams, lines 557-561: the new pair replaces the held one, which
\* is dropped, and the error is cleared
LaunchSwap ==
    /\ ctrl.pc = "launch_swap"
    /\ Droppable(streams["held"])
    /\ streams' = [streams EXCEPT !["held"] = streams["new"], !["new"] = None]
    /\ error' = None
    /\ ctrl' = [ctrl EXCEPT !.pc = "idle"]
    /\ UNCHANGED <<engine_vars, host, settings, tracks, clip, hist>>

----------------------------------------------------------------------------
(* app.rs: the control-layer operations on the engine and the tracks        *)

\* App::rotate, lines 226-230 (EditMode::Bpm): (bpm as i32 - offset).max(0)
RotateBpm(maxOps) ==
    /\ Begin(maxOps)
    /\ \E offset \in {-1, 1} : bpm' = Max(bpm - offset, 0)
    /\ ctrl' = Counted
    /\ UNCHANGED <<beats, sample, sample_rate, metronome, engine_tracks, recorded_clip,
                   host, settings, tracks, clip, error, streams, hist>>

\* App::rotate, lines 231-235 (EditMode::Beats)
RotateBeats(maxOps) ==
    /\ Begin(maxOps)
    /\ \E offset \in {-1, 1} : beats' = Max(beats - offset, 0)
    /\ ctrl' = Counted
    /\ UNCHANGED <<bpm, sample, sample_rate, metronome, engine_tracks, recorded_clip,
                   host, settings, tracks, clip, error, streams, hist>>

\* App::rotate, lines 236-240 (EditMode::TrackVolume(Some(index))):
\* (volume as i32 - offset * 5).clamp(0, 200), then update_tracks
RotateTrackVolume(maxOps, i) ==
    /\ Begin(maxOps)
    /\ \E offset \in {-1, 1} :
          tracks' = [tracks EXCEPT ![i].volume = Min(Max(@ - offset * 5, 0), 200)]
    /\ update_tracks(tracks')
    /\ ctrl' = Counted
    /\ UNCHANGED <<bpm, beats, sample, sample_rate, metronome, recorded_clip,
                   host, settings, clip, error, streams>>

\* App::play_key, lines 163-167: 'M' toggles the metronome and publishes
KeyMetronome(maxOps) ==
    /\ Begin(maxOps)
    /\ metronome' = ~metronome
    /\ update_tracks(tracks)
    /\ ctrl' = Counted
    /\ UNCHANGED <<bpm, beats, sample, sample_rate, recorded_clip,
                   host, settings, tracks, clip, error, streams>>

\* App::track_key, lines 194-197: a track key outside the edit modes
TrackKeyMute(maxOps, i) ==
    /\ Begin(maxOps)
    /\ tracks' = [tracks EXCEPT ![i] = toggle_mute(@)]
    /\ update_tracks(tracks')
    /\ ctrl' = Counted
    /\ UNCHANGED <<bpm, beats, sample, sample_rate, metronome, recorded_clip,
                   host, settings, clip, error, streams>>

\* App::track_key, lines 176-179 (EditMode::RemoveTrack)
TrackKeyRemove(maxOps, i) ==
    /\ Begin(maxOps)
    /\ tracks' = [tracks EXCEPT ![i].clip = None]
    /\ update_tracks(tracks')
    /\ ctrl' = Counted
    /\ UNCHANGED <<bpm, beats, sample, sample_rate, metronome, recorded_clip,
                   host, settings, clip, error, streams>>

\* Clip::add: panics unless the channel counts agree; zip() stops at the
\* shorter buffer
clip_add(a, b, volume) ==
    NewClip(a.channels, a.sample_rate,
            [k \in 1..Min(Len(a.samples), Len(b.samples)) |->
                FracAdd(a.samples[k], FracMul(b.samples[k], <<volume, 1>>))])

\* Audio::get_clip: the value returned, and Audio.clip and the cell afterwards
get_clip ==
    LET taken == cell_take(recorded_clip)
    IN  IF taken.value # None
        THEN [value |-> Some(Unwrap(taken.value).clip),
              clip |-> Some(Unwrap(taken.value).clip)]
        ELSE [value |-> clip, clip |-> clip]

\* App::track_key, lines 180-193 (EditMode::RecordTrack)
TrackKeyRecord(maxOps, i) ==
    /\ Begin(maxOps)
    /\ LET taken == cell_take(recorded_clip)
           got == get_clip
       IN  /\ recorded_clip' = taken.cell
           /\ clip' = got.clip
           /\ IF got.value = None THEN
                  /\ ctrl' = Counted
                  /\ hist' = hist
                  /\ UNCHANGED <<tracks, engine_tracks, streams>>
              ELSE IF tracks[i].clip # None
                      /\ Unwrap(tracks[i].clip).channels # Unwrap(got.value).channels THEN
                  \* assert_eq!(self.channels, other.channels)
                  /\ Panic(Counted)
                  /\ hist' = [hist EXCEPT !.ctaken =
                         IF taken.value # None THEN Append(@, Unwrap(taken.value).n) ELSE @]
                  /\ UNCHANGED <<tracks, engine_tracks>>
              ELSE
                  /\ tracks' = [tracks EXCEPT ![i].clip =
                         IF @ # None THEN Some(clip_add(Unwrap(@), Unwrap(got.value), 1))
                         ELSE got.value]
                  /\ engine_tracks' = cell_store(engine_tracks,
                         Some([tracks |-> tracks', n |-> hist.tpub + 1]))
                  /\ hist' = [hist EXCEPT !.tpub = @ + 1, !.ctaken =
                         IF taken.value # None THEN Append(@, Unwrap(taken.value).n) ELSE @]
                  /\ ctrl' = Counted
                  /\ UNCHANGED streams
    /\ UNCHANGED <<bpm, beats, sample, sample_rate, metronome, host, settings, error>>

----------------------------------------------------------------------------
(* The audio back-ends explored.  Sample rates are the ones cpal devices    *)
(* report; min..max is read by the code as a half-open range.               *)

Cfg(min, max, buf) == [min_sample_rate |-> min, max_sample_rate |-> max, buffer_size |-> buf]

Dev(name, configs, default) == [name |-> name, configs |-> configs, default_config |-> default]

Host(ins, outs, din, dout) ==
    [input_devices |-> ins, output_devices |-> outs,
     default_input_device |-> din, default_output_device |-> dout]

\* a one-channel microphone and a one-channel output at 44100 Hz
MicMono == Dev("mic", <<Cfg(44100, 48000, <<>>)>>, Some(1))

OutMono == Dev("out", <<Cfg(44100, 48000, <<64, 4096>>)>>, Some(1))

\* two-channel devices offering 44100 to 176400 Hz
MicStereo == Dev("mic2", <<Cfg(44100, 192000, <<>>)>>, Some(2))

OutStereo == Dev("out2", <<Cfg(44100, 192000, <<32, 1024>>)>>, Some(2))

\* an output that only runs at 88200 Hz
OutFast == Dev("out88", <<Cfg(88200, 96000, <<>>)>>, Some(1))

\* a one-channel microphone that takes buffers of 32 to 64 frames only
MicSmall == Dev("mic64", <<Cfg(44100, 96000, <<32, 64>>)>>, Some(1))

\* a microphone whose default_input_config() returns Err
MicNoConfig == Dev("mic0", <<Cfg(44100, 48000, <<>>)>>, None)

HostMono == Host(<<MicMono>>, <<OutMono>>, Some(MicMono), Some(OutMono))

HostStereo == Host(<<MicStereo>>, <<OutStereo>>, Some(MicStereo), Some(OutStereo))

HostNoInput == Host(<<>>, <<OutMono>>, None, Some(OutMono))

HostNoOutput == Host(<<MicMono>>, <<OutMono>>, Some(MicMono), None)

HostNoRate == Host(<<MicMono>>, <<OutFast>>, Some(MicMono), Some(OutFast))

HostMismatch == Host(<<MicMono>>, <<OutStereo>>, Some(MicMono), Some(OutStereo))

HostNoConfig == Host(<<MicNoConfig>>, <<OutMono>>, Some(MicNoConfig), Some(OutMono))

\* a host with two microphones and three outputs
HostDuo ==
    Host(<<MicMono, MicSmall>>, <<OutMono, OutStereo, OutFast>>,
         Some(MicMono), Some(OutMono))

\* cpal::available_hosts() on the machine whose default host is h: HostDuo
\* and HostStereo are the two back-ends of one machine
available_hosts(h) ==
    IF h \in {HostDuo, HostStereo} THEN <<HostDuo, HostStereo>> ELSE <<h>>

Hosts == {HostMono, HostStereo, HostNoInput, HostNoOutput, HostNoRate, HostMismatch,
          HostNoConfig}

\* the feedback delay in milliseconds the control layer has set (default 15)
InitDelay == 1

----------------------------------------------------------------------------
(* app.rs: rotations in the settings tab                                    *)

\* App::rotate, lines 244-247, after a rotation in the settings tab:
\* self.audio.tracks.resample(sample_rate) when a sample rate is selected
Resampled(new_settings) ==
    IF get_sample_rate(new_settings) = None THEN tracks
    ELSE tracks_resample(tracks, Unwrap(get_sample_rate(new_settings)))

\* App::rotate in the settings tab: the settings as rotated, the tracks
\* resampled; launch_streams (line 249) is the step that follows
Rotated(maxOps, new_settings) ==
    /\ Begin(maxOps)
    /\ settings' = new_settings
    /\ tracks' = Resampled(new_settings)
    /\ ctrl' = [Counted EXCEPT !.pc = "rotated"]
    /\ UNCHANGED <<engine_vars, clip, error, streams, hist>>

\* App::rotate, line 217 (EditMode::Host)
RotateHost(maxOps) ==
    \E offset \in {-1, 1} :
        /\ host' = rotate_host(available_hosts(host), host, offset)
        /\ Rotated(maxOps, query_devices(settings, host'))

\* App::rotate, line 218 (EditMode::InputDevice)
RotateInputDevice(maxOps) ==
    \E offset \in {-1, 1} :
        /\ Rotated(maxOps, rotate_input_device(settings, offset))
        /\ UNCHANGED host

\* App::rotate, line 219 (EditMode::OutputDevice)
RotateOutputDevice(maxOps) ==
    \E offset \in {-1, 1} :
        /\ Rotated(maxOps, rotate_output_device(settings, offset))
        /\ UNCHANGED host

\* App::rotate, line 220 (EditMode::SampleRate)
RotateSampleRate(maxOps) ==
    \E offset \in {-1, 1} :
        /\ Rotated(maxOps, rotate_sample_rate(settings, offset))
        /\ UNCHANGED host

\* App::rotate, line 221 (EditMode::BufferSize)
RotateBufferSize(maxOps) ==
    \E offset \in {-1, 1} :
        /\ Rotated(maxOps, rotate_buffer_size(settings, offset))
        /\ UNCHANGED host

\* App::rotate, line 249: self.audio.launch_streams()
RotateLaunch ==
    /\ ctrl.pc = "rotated"
    /\ LaunchBegin(ctrl)

----------------------------------------------------------------------------
(* The state in Audio::new (audio.rs, lines 519-534) when it calls          *)
(* launch_streams: AudioEngine::default, Tracks::default, the settings as   *)
(* rotate_host(0) and query_devices leave them.  Tempo, loop length and     *)
(* feedback delay are what the control layer has set them to (App::rotate,  *)
(* from the defaults 120, 16 and 15): values that make a loop last a few    *)
(* frames and the ring buffer hold a few dozen samples.                     *)

InitWith(hosts, bpms, beatss) ==
    /\ bpm \in bpms
    /\ beats \in beatss
    /\ sample = 0
    /\ sample_rate = 0
    /\ metronome = FALSE
    /\ engine_tracks = None
    /\ recorded_clip = None
    /\ host \in hosts
    /\ settings = [query_devices(NewSettings, host) EXCEPT !.delay = InitDelay]
    /\ tracks = DefaultTracks
    /\ clip = None
    /\ error = None
    /\ streams = [s \in Slots |-> None]
    /\ ctrl = [pc |-> "new", ops |-> 0, launches |-> 0]
    /\ hist = [tpub |-> 0, ttaken |-> <<>>, cpub |-> 0, ctaken |-> <<>>]

\* track slots the control layer edits
MaxSlot == 1

Launch ==
    \/ NewLaunch
    \/ LaunchBuildOutput
    \/ LaunchPlayInput
    \/ LaunchPlayOutput
    \/ LaunchSwap

Output(s, maxIter) ==
    \/ OutOnBeat(s, maxIter)
    \/ OutTake(s)
    \/ OutAdvance(s)
    \/ OutMix(s)
    \/ OutLoopBeat(s)
    \/ OutLoopBeats(s)
    \/ OutReset(s)
    \/ OutPublish(s)

----------------------------------------------------------------------------
(* Spec: a session.  The streams are launched once, by the constructor;     *)
(* the control layer then edits tempo, loop length and tracks while the     *)
(* callbacks run.                                                           *)

Init == InitWith({HostMono, HostStereo}, {1440000, 2880000}, {1, 2})

Control(maxOps) ==
    \/ RotateBpm(maxOps)
    \/ RotateBeats(maxOps)
    \/ \E i \in 1..MaxSlot :
          \/ TrackKeyMute(maxOps, i)
          \/ TrackKeyRecord(maxOps, i)

Next ==
    \/ Launch
    \/ Control(MaxOps)
    \/ \E s \in Slots :
          \/ InputCallback(s, MaxPush)
          \/ Output(s, MaxIter)

Spec == Init /\ [][Next]_vars

----------------------------------------------------------------------------
(* The stream pairs that exist: the held one and the one being launched     *)

Pairs == {Unwrap(streams[s]) : s \in {t \in Slots : streams[t] # None}}

Last(seq) == seq[Len(seq)]

Range(seq) == {seq[i] : i \in 1..Len(seq)}

----------------------------------------------------------------------------
(* Properties of a session (Spec)                                           *)

\* C1: the TrackSet an output callback mixes from changes only in a loop
\* iteration whose is_on_beat() check was true, by the take_tracks of that
\* iteration; every output sample is mixed from the TrackSet active at that
\* moment, so a snapshot published off the beat is not heard before an
\* iteration that starts on a beat.
C1_AdoptOnBeatOnly ==
    [][\A p \in Pairs : \A q \in Pairs' :
          p.id = q.id =>
             /\ q.tracks # p.tracks =>
                   /\ p.pc = "take"
                   /\ p.on_beat
                   /\ engine_tracks # None
                   /\ q.tracks = Unwrap(engine_tracks).tracks
             /\ (p.pc = "mix" /\ q.pc = "loop") =>
                   q.target = Some(get_sample(p.tracks, p.channel, p.last_feedback))]_vars

\* C1, its case: an iteration that found is_on_beat() false has passed the
\* take while a published snapshot that differs from the active TrackSet waits
C1_Witness ==
    \E p \in Pairs :
        /\ p.pc = "advance"
        /\ ~p.on_beat
        /\ engine_tracks # None
        /\ Unwrap(engine_tracks).tracks # p.tracks

\* C2: each hand-off cell holds the value of the latest publish or nothing;
\* a take that returns a value returns the latest publish, whatever was
\* published before it and not taken is never returned, and the take leaves
\* the cell empty.
C2_LatestValueWins ==
    /\ [](/\ engine_tracks # None => Unwrap(engine_tracks).n = hist.tpub
          /\ recorded_clip # None => Unwrap(recorded_clip).n = hist.cpub)
    /\ [][/\ hist'.ttaken # hist.ttaken =>
                /\ hist'.ttaken = Append(hist.ttaken, hist.tpub)
                /\ engine_tracks' = None
          /\ hist'.ctaken # hist.ctaken =>
                /\ hist'.ctaken = Append(hist.ctaken, hist.cpub)
                /\ recorded_clip' = None
          /\ hist'.tpub # hist.tpub =>
                engine_tracks' = Some([tracks |-> tracks', n |-> hist.tpub + 1])]_vars

\* C2, its case: a snapshot was published over one never taken, the take
\* returned the later one and the cell is empty
C2_Witness ==
    /\ engine_tracks = None
    /\ \E i \in 1..Len(hist.ttaken) :
          /\ hist.ttaken[i] >= 2
          /\ (hist.ttaken[i] - 1) \notin Range(hist.ttaken)

\* C4: just after a loop reset, and at the end of every loop iteration, the
\* sample position is strictly below the loop length
\* sample_rate * beats * 60 / bpm computed from the values the iteration read
\* (position * bpm < beats * 60 * sample_rate), for every bpm >= 0 and
\* beats >= 0 and any interleaving of set_bpm and set_beats.
C4_PositionBelowLoopLength ==
    \A p \in Pairs :
        /\ p.pc = "publish" => (sample = 0 /\ 0 < p.loop_beats * p.bt[2])
        /\ (p.pc = "on_beat" /\ p.iters > 0) =>
               IF p.looped
               THEN sample = 0 /\ 0 < p.loop_beats * p.bt[2]
               ELSE p.bt[1] < p.loop_beats * p.bt[2]

\* C5: every published recorded Clip holds whole frames: the length of its
\* buffer is frame_count * channels
C5_ClipWholeFrames ==
    recorded_clip # None =>
        LET c == Unwrap(recorded_clip).clip
        IN  Len(c.samples) = frame_count(c) * c.channels

----------------------------------------------------------------------------
(* SpecStream: one stream pair from its launch on, tempo and loop length    *)
(* fixed, long enough for the pre-filled ring buffer to drain and to fill.  *)

\* samples the output callback renders
StreamIter == 46

\* samples the input callback captures
StreamPush == 45

InitStream == InitWith({HostMono, HostStereo}, {1440000, 1920000, 2880000}, {1, 2})

NextStream ==
    \/ Launch
    \/ \E s \in Slots :
          \/ InputCallback(s, StreamPush)
          \/ Output(s, StreamIter)

SpecStream == InitStream /\ [][NextStream]_vars

\* the loop length in frames, rounded up to a whole frame
CeilL == (beats * 60 * sample_rate + bpm - 1) \div bpm

\* C3: from position 0 with fixed bpm > 0 and beats > 0 the position is
\* reset to 0 after exactly ceil(L) output frames, ceil(L) * channels output
\* samples, where L = beats * 60 / bpm * sample_rate: never before, never
\* later, and every frame in between is counted once.
C3_ResetAfterCeilL ==
    \A p \in Pairs :
        /\ sample <= CeilL
        /\ p.pc = "reset" =>
              (sample = CeilL /\ Len(p.recording) = CeilL * p.input_channels)
        /\ p.pc = "publish" =>
              (sample = 0 /\ Len(p.recording) = CeilL * p.input_channels)
        /\ p.pc # "publish" =>
              Len(p.recording) = sample * p.input_channels + p.channel

\* C3, its case: a second loop has run to its reset, L not a whole number
C3_Witness ==
    \E p \in Pairs :
        /\ p.pc = "reset"
        /\ hist.cpub >= 1
        /\ (beats * 60 * sample_rate) % bpm # 0

\* C3 as first stated: the reset comes after exactly L frames
C3_ResetAfterExactlyL ==
    \A p \in Pairs :
        p.pc = "reset" =>
            /\ sample * bpm = beats * 60 * sample_rate
            /\ Len(p.recording) * bpm = beats * 60 * sample_rate * p.input_channels

\* C6: the ring buffer hands the samples over in push order unchanged, and
\* what a pop yields when the buffer is empty is the value of the latest
\* successful pop, 0.0 when nothing was ever popped; that value is what is
\* recorded and mixed.
C6_HoldLast ==
    \A p \in Pairs :
        /\ p.popped \o p.ring = Zeros(p.buffer_size) \o p.accepted
        /\ p.last_feedback = IF p.popped = <<>> THEN 0 ELSE Last(p.popped)
        /\ p.recording # <<>> => Last(p.recording) = p.last_feedback
        /\ p.pc = "loop" => Unwrap(p.target).feedback = p.last_feedback

\* C6, its case: a pop found the buffer empty and yielded a captured sample
\* popped before
C6_Witness ==
    \E p \in Pairs :
        /\ p.underrun
        /\ p.pc = "mix"
        /\ p.last_feedback # 0

\* C7: the occupancy of the ring buffer never exceeds the capacity fixed at
\* launch, and a push on a full buffer drops the sample and leaves the
\* buffer as it was.
C7_DropWhenFull ==
    /\ [](\A p \in Pairs : Len(p.ring) <= p.cap)
    /\ [][\A p \in Pairs : \A q \in Pairs' :
            p.id = q.id =>
               /\ q.cap = p.cap
               /\ (q.pushed # p.pushed /\ Len(p.ring) = p.cap) =>
                     /\ q.ring = p.ring
                     /\ q.accepted = p.accepted
                     /\ q.dropped = p.dropped + 1]_vars

\* C7, its case: a sample was dropped on a full buffer
C7_Witness ==
    \E p \in Pairs : p.dropped > 0 /\ Len(p.ring) = p.cap

\* C8: at launch the ring buffer has capacity 2 * N and holds N zeros, where
\* N = input_channels * sample_rate * delay / 1000; the first N values
\* popped are 0.0, the (N+1)-th is the first captured sample, and while no
\* sample is dropped the k-th captured sample is the (N+k)-th popped.
C8_RingPrefilled ==
    \A p \in Pairs :
        LET N == (p.input_channels * p.sample_rate * settings.delay) \div 1000
        IN  /\ p.cap = 2 * N
            /\ (p.pushed = 0 /\ p.iters = 0) => p.ring = Zeros(N)
            /\ \A k \in 1..Len(p.popped) : k <= N => p.popped[k] = 0
            /\ Len(p.popped) > N => p.popped[N + 1] = 1
            /\ p.dropped = 0 =>
                  \A k \in 1..Len(p.popped) : k > N => p.popped[k] = k - N

\* C8, its case: the zeros have been popped and the first captured sample
\* after them
C8_Witness ==
    \E p \in Pairs :
        LET N == (p.input_channels * p.sample_rate * settings.delay) \div 1000
        IN  Len(p.popped) = N + 1 /\ p.popped[N + 1] = 1

\* C8 as first stated: the capacity of the ring buffer is N
C8_RingSizedToN ==
    \A p \in Pairs :
        LET N == (p.input_channels * p.sample_rate * settings.delay) \div 1000
        IN  /\ p.cap = N
            /\ (p.pushed = 0 /\ p.iters = 0) => p.ring = Zeros(N)
            /\ \A k \in 1..Len(p.popped) : k <= N => p.popped[k] = 0
            /\ Len(p.popped) > N => p.popped[N + 1] = 1

----------------------------------------------------------------------------
(* SpecLaunch: launch_streams on every kind of host, from the constructor   *)
(* and again on F5 while the callbacks of the streams it built run.         *)

\* F5 presses
LaunchOps == 1

\* samples each output callback renders
LaunchIter == 1

\* samples each input callback captures
LaunchPush == 1

InitLaunch == InitWith(Hosts, {2880000}, {1})

NextLaunch ==
    \/ Launch
    \/ KeyF5(LaunchOps)
    \/ \E s \in Slots :
          \/ InputCallback(s, LaunchPush)
          \/ Output(s, LaunchIter)

SpecLaunch == InitLaunch /\ [][NextLaunch]_vars

\* launch_streams returns to its caller with the error err, nothing built
Refused(err) ==
    /\ error' = Some(err)
    /\ streams' = streams
    /\ ctrl'.pc = "idle"

\* C9: launch_stream returns an error and creates no stream when no input
\* device is selected ("no input device"), else when no output device is
\* selected ("no output device"), else when no sample rate is selected
\* ("no sample rate"), else when the default channel counts of the two
\* devices differ ("input and output channels must match").
C9_LaunchErrors ==
    [][ctrl'.launches # ctrl.launches =>
          LET no_input == settings.input_device = None
              no_output == settings.output_device = None
              no_rate == settings.sample_rate = None
              input_config == Unwrap(get_input_device(settings)).default_config
              output_config == Unwrap(get_output_device(settings)).default_config
          IN  IF no_input THEN Refused("no input device")
              ELSE IF no_output THEN Refused("no output device")
              ELSE IF no_rate THEN Refused("no sample rate")
              ELSE IF input_config # None /\ output_config # None
                         /\ Unwrap(input_config) # Unwrap(output_config)
                   THEN Refused("input and output channels must match")
              ELSE TRUE]_vars

\* C9, its case: a launch refused for devices whose channel counts differ
C9_Witness ==
    /\ ctrl.launches >= 1
    /\ ctrl.pc = "idle"
    /\ error = Some("input and output channels must match")
    /\ \A s \in Slots : streams[s] = None

\* C10: a launch_streams that fails leaves the streams held before in place
\* and running, records the error and does not end the program; one that
\* succeeds replaces both streams by the new ones and clears the error.
C10_FailedLaunchKeepsStreams ==
    [][(/\ \/ ctrl'.launches # ctrl.launches
            \/ ctrl.pc \in {"launch_output", "launch_play", "launch_play_output",
                            "launch_swap"}
         /\ ctrl'.pc \in {"idle", "panicked"}) =>
          IF ctrl.pc = "launch_swap" /\ ctrl'.pc = "idle"
          THEN /\ streams["new"] # None
               /\ Unwrap(streams["new"]).input_playing
               /\ Unwrap(streams["new"]).output_playing
               /\ streams' = [held |-> streams["new"], new |-> None]
               /\ error' = None
          ELSE /\ streams'["held"] = streams["held"]
               /\ streams'["new"] = None
               /\ error' # None
               /\ ctrl'.pc # "panicked"]_vars

\* C11: once launch_stream has got as far as building the output stream, and
\* so when it returns Ok and in every iteration of the output callback it
\* built, the engine's sample_rate field is the negotiated sample rate, the
\* one the streams of that launch run at.
C11_SampleRateSet ==
    \A p \in Pairs :
        p.id = ctrl.launches =>
            /\ sample_rate = p.sample_rate
            /\ get_sample_rate(settings) = Some(p.sample_rate)

\* C11, its case: launch_streams has returned from a successful launch and
\* the output callback of the new streams has run
C11_Witness ==
    \E p \in Pairs :
        /\ p.id = ctrl.launches
        /\ ctrl.pc = "idle"
        /\ streams["held"] = Some(p)
        /\ p.iters >= 1
        /\ sample_rate = p.sample_rate

----------------------------------------------------------------------------
(* SpecSettings: the control thread in the settings tab, rotating host,     *)
(* devices, sample rate and buffer size, each rotation followed by its      *)
(* launch_streams.                                                          *)

\* rotations
SettingsOps == 3

InitSettings == InitWith({HostDuo, HostStereo}, {2880000}, {1})

NextSettings ==
    \/ Launch
    \/ RotateHost(SettingsOps)
    \/ RotateInputDevice(SettingsOps)
    \/ RotateOutputDevice(SettingsOps)
    \/ RotateSampleRate(SettingsOps)
    \/ RotateBufferSize(SettingsOps)
    \/ RotateLaunch

SpecSettings == InitSettings /\ [][NextSettings]_vars

\* the host and the devices selected
Selection == <<host, get_input_device(settings), get_output_device(settings)>>

\* the default selection in a list: the index of the preferred value, else
\* of the first entry, else none
DefaultIndex(list, preferred) ==
    IF \E i \in 1..Len(list) : list[i] = preferred
    THEN Some((CHOOSE i \in 1..Len(list) : list[i] = preferred) - 1)
    ELSE IF list # <<>> THEN Some(0)
    ELSE None

\* both lists and both default selections are those of the devices selected
Renegotiated(s) ==
    /\ s.sample_rates = sample_rates(get_input_device(s), get_output_device(s))
    /\ s.buffer_sizes = buffer_sizes(get_input_device(s), get_output_device(s))
    /\ s.sample_rate = DefaultIndex(s.sample_rates, 48000)
    /\ s.buffer_size = DefaultIndex(s.buffer_sizes, 128)

\* C12: after query_devices in the constructor and after every change of the
\* device selection (rotate_host, rotate_input_device, rotate_output_device)
\* the sample-rate list, the buffer-size list and their default selections
\* are those of the newly selected devices, before the launch that follows.
C12_ListsRecomputed ==
    /\ [](ctrl.pc = "new" => Renegotiated(settings))
    /\ [][Selection' # Selection => Renegotiated(settings')]_vars


\* the selected pair of devices, when both are selected
BothSelected(s) == get_input_device(s) # None /\ get_output_device(s) # None

\* a device supports a rate when one of its configurations has the rate
\* between its minimum and its maximum sample rate, both included
Supports(device, rate) ==
    \E i \in 1..Len(device.configs) :
        /\ device.configs[i].min_sample_rate <= rate
        /\ rate <= device.configs[i].max_sample_rate

LadderRates(input_device, output_device) ==
    LET Both(r) == Supports(input_device, r) /\ Supports(output_device, r)
    IN  SelectSeq(SAMPLE_RATES, Both)

\* C13: with both devices selected, the negotiated sample-rate list is exactly
\* the ladder values that both the input and the output device support, in
\* ascending order without duplicates
C13_SampleRatesNegotiated ==
    BothSelected(settings) =>
        settings.sample_rates =
            LadderRates(Unwrap(get_input_device(settings)),
                        Unwrap(get_output_device(settings)))

\* C14: after any recomputation of the sample-rate list the default selection
\* is the index of 48000 if the list has it, else the index of the lowest
\* rate, else none when the list is empty
C14_DefaultSampleRate ==
    /\ [](ctrl.pc = "new" => settings.sample_rate = DefaultIndex(settings.sample_rates, 48000))
    /\ [][Selection' # Selection =>
            settings'.sample_rate = DefaultIndex(settings'.sample_rates, 48000)]_vars

\* a rotation has recomputed the list, and 48000 is in it but not first
C14_Witness ==
    /\ ctrl.pc = "rotated"
    /\ Len(settings.sample_rates) >= 2
    /\ settings.sample_rates[2] = 48000
    /\ settings.sample_rate = Some(1)

\* a device accepts a buffer size when one of its configurations leaves the
\* size unconstrained or has it between its minimum and maximum, both included
Accepts(device, size) ==
    \E i \in 1..Len(device.configs) :
        \/ device.configs[i].buffer_size = <<>>
        \/ /\ device.configs[i].buffer_size # <<>>
           /\ device.configs[i].buffer_size[1] <= size
           /\ size <= device.configs[i].buffer_size[2]

LadderSizes(input_device, output_device) ==
    LET Both(b) == Accepts(input_device, b) /\ Accepts(output_device, b)
    IN  SelectSeq(BUFFER_SIZES, Both)

----------------------------------------------------------------------------
(* SpecClip: playing and overdubbing clips.  The session has recorded       *)
(* clips before: a track holds one, Audio.clip is the last one taken from   *)
(* the engine.  The control thread has relaunched the streams (F5), the new *)
(* pair runs with the tracks as they were, and the control layer records    *)
(* onto the track and changes the loop length.  A clip holds the values     *)
(* 1, 2, 3, .. of a recording.  A recording has at least one sample; the    *)
(* buffer of a track's clip may have any length, since overdubs and         *)
(* resampling change it, and either channel count, since the machine has a  *)
(* one-channel and a two-channel host.                                      *)

\* operations of the control layer, iterations of the output callback
ClipOps == 2

ClipIter == 2

\* samples in a clip
MaxClipLen == 3

ClipOf(channels, rate, len) == NewClip(channels, rate, [k \in 1..len |-> <<k, 1>>])

\* the clips of at least min samples
Clips(rate, min) ==
    {ClipOf(channels, rate, len) : channels \in {1, 2}, len \in min..MaxClipLen}

InitClip ==
    /\ bpm = 2880000
    /\ beats = 1
    /\ sample = 0
    /\ metronome = FALSE
    /\ engine_tracks = None
    /\ recorded_clip = None
    /\ host \in {HostDuo, HostStereo}
    /\ settings = [query_devices(NewSettings, host) EXCEPT !.delay = InitDelay]
    /\ sample_rate = Unwrap(get_sample_rate(settings))
    /\ \E c \in {None} \cup {Some(x) : x \in Clips(sample_rate, 0)} :
          tracks = [DefaultTracks EXCEPT ![1].clip = c]
    /\ clip \in {None} \cup {Some(x) : x \in Clips(sample_rate, 1)}
    /\ error = None
    /\ streams = [s \in Slots |->
          IF s = "held"
          THEN Some([NewPair(2, Unwrap(Unwrap(get_input_device(settings)).default_config),
                             sample_rate, settings.delay, tracks)
                        EXCEPT !.input_playing = TRUE, !.output_playing = TRUE])
          ELSE None]
    /\ ctrl = [pc |-> "idle", ops |-> 0, launches |-> 2]
    /\ hist = [tpub |-> 0, ttaken |-> <<>>, cpub |-> 0, ctaken |-> <<>>]

NextClip ==
    \/ RotateBeats(ClipOps)
    \/ \E i \in 1..MaxSlot : TrackKeyRecord(ClipOps, i)
    \/ \E s \in Slots : Output(s, ClipIter)

SpecClip == InitClip /\ [][NextClip]_vars

\* the calls clip.sample(index, channel) of the get_sample a callback has
\* just made, or has panicked in
Reads ==
    UNION {{[clip |-> Unwrap(p.tracks[n].clip), index |-> sample, channel |-> p.channel] :
               n \in {m \in 1..TrackCount : p.tracks[m].clip # None}} :
           p \in {q \in Pairs : q.pc \in {"loop", "panicked"}}}

\* the value stored in the buffer at a frame and channel, 0.0 out of range
Stored(c, index, channel) ==
    IF index * c.channels + channel < Len(c.samples)
    THEN c.samples[index * c.channels + channel + 1]
    ELSE <<0, 1>>

\* C16: Clip.sample is total: for every clip, empty and short ones included,
\* and every index outside [0, frame_count) it returns exactly 0.0 without
\* underflow or a non-finite value, and the output callback never fails when
\* the position runs past the end of a track's clip
C16_SampleTotal ==
    /\ \A r \in Reads :
          r.index >= frame_count(r.clip) =>
              /\ ~fade_overflows(r.clip, r.index)
              /\ clip_sample(r.clip, r.index, r.channel) = <<0, 1>>
    /\ \A p \in Pairs : p.pc # "panicked"

\* the fade window of one millisecond, in frames
Window(c) == c.sample_rate \div 1000

\* C17: for every non-empty clip Clip.sample at index 0 is exactly 0, inside
\* the fade window at the start it is the stored value times index / window,
\* and between the two windows it is the stored value
C17_FadeIn ==
    \A r \in Reads :
        frame_count(r.clip) > 0 =>
            /\ r.index = 0 => clip_sample(r.clip, r.index, r.channel) = <<0, 1>>
            /\ r.index < Window(r.clip) =>
                   clip_sample(r.clip, r.index, r.channel)
                       = FracMul(Stored(r.clip, r.index, r.channel),
                                 Frac(r.index, Window(r.clip)))
            /\ (Window(r.clip) <= r.index /\ r.index <= frame_count(r.clip) - Window(r.clip)) =>
                   clip_sample(r.clip, r.index, r.channel)
                       = Stored(r.clip, r.index, r.channel)

\* C18: the fade window Clip.sample applies is sample_rate / 1000 frames,
\* whatever the clip's length and channel count
C18_FadeWindow ==
    \A r \in Reads : fade_samples_of(r.clip) = Window(r.clip)

\* the clip an overdub onto track i adds to the track's clip
Overdub(i) == IF tracks[i].clip # None THEN get_clip.value ELSE None

\* C19: a.add(b, gain) of clips with equal channel counts has the length, the
\* channel count and the sample rate of a, whatever the length of b, and its
\* sample k is a[k] + b[k] * gain wherever b has a sample k
C19_AddKeepsLength ==
    [][\A i \in 1..MaxSlot :
          (/\ TrackKeyRecord(ClipOps, i)
           /\ Overdub(i) # None
           /\ Unwrap(Overdub(i)).channels = Unwrap(tracks[i].clip).channels) =>
              LET a == Unwrap(tracks[i].clip)
                  b == Unwrap(Overdub(i))
                  sum == Unwrap(tracks'[i].clip)
              IN  /\ tracks'[i].clip # None
                  /\ Len(sum.samples) = Len(a.samples)
                  /\ sum.channels = a.channels
                  /\ sum.sample_rate = a.sample_rate
                  /\ \A k \in 1..Min(Len(a.samples), Len(b.samples)) :
                        k <= Len(sum.samples) =>
                            sum.samples[k] = FracAdd(a.samples[k], b.samples[k])]_vars

\* C20: Clip.add on clips whose channel counts differ returns an error to its
\* caller: the track slot and both clips stay as they are and the control
\* thread goes on
C20_AddMismatchReturns ==
    [][\A i \in 1..MaxSlot :
          (/\ TrackKeyRecord(ClipOps, i)
           /\ Overdub(i) # None
           /\ Unwrap(Overdub(i)).channels # Unwrap(tracks[i].clip).channels) =>
              /\ tracks' = tracks
              /\ clip' = Overdub(i)
              /\ ctrl'.pc # "panicked"]_vars


----------------------------------------------------------------------------
(* SpecResample: the settings tab in a session that holds clips.  From the  *)
(* state of InitClip the control layer rotates host, devices, sample rate   *)
(* and buffer size, which resamples the tracks and relaunches the streams,  *)
(* relaunches by hand, and records onto, removes and mutes a track.         *)

ResampleOps == 2

\* a track holds nothing or a clip of MaxClipLen samples, Audio.clip is
\* nothing or a one-channel recording of that length
InitResample ==
    /\ InitClip
    /\ tracks[1].clip # None => Len(Unwrap(tracks[1].clip).samples) = MaxClipLen
    /\ clip # None => (Unwrap(clip).channels = 1 /\ Len(Unwrap(clip).samples) = MaxClipLen)

NextResample ==
    \/ RotateHost(ResampleOps)
    \/ RotateInputDevice(ResampleOps)
    \/ RotateOutputDevice(ResampleOps)
    \/ RotateSampleRate(ResampleOps)
    \/ RotateBufferSize(ResampleOps)
    \/ RotateLaunch
    \/ KeyF5(ResampleOps)
    \/ LaunchBuildOutput
    \/ LaunchPlayInput
    \/ LaunchPlayOutput
    \/ LaunchSwap
    \/ \E i \in 1..MaxSlot :
          \/ TrackKeyRecord(ResampleOps, i)
          \/ TrackKeyRemove(ResampleOps, i)
          \/ TrackKeyMute(ResampleOps, i)

SpecResample == InitResample /\ [][NextResample]_vars

\* the clips the tracks hold
TrackClips == {Unwrap(tracks[n].clip) : n \in {m \in 1..TrackCount : tracks[m].clip # None}}

\* C21: Clip.resample(t) returns a clip with sample rate t, the same channel
\* count and floor(frame_count * t / source rate) frames, its buffer being
\* frame count times channels long; so resample(r).resample(s) has
\* floor(floor(n * r / orig) * s / r) frames (computed for the clips the
\* session starts with and every two rates of the ladder)
C21_ResampleFrameCount ==
    /\ [][(ctrl'.pc = "rotated" /\ get_sample_rate(settings') # None) =>
            \A n \in 1..TrackCount :
                tracks[n].clip # None =>
                    LET c == Unwrap(tracks[n].clip)
                        d == Unwrap(tracks'[n].clip)
                        t == Unwrap(get_sample_rate(settings'))
                    IN  /\ tracks'[n].clip # None
                        /\ d.sample_rate = t
                        /\ d.channels = c.channels
                        /\ frame_count(d) = (frame_count(c) * t) \div c.sample_rate
                        /\ Len(d.samples) = frame_count(d) * d.channels]_vars
    /\ [](ctrl.ops = 0 =>
            \A c \in TrackClips : \A r \in Range(SAMPLE_RATES) : \A t \in Range(SAMPLE_RATES) :
            LET d == clip_resample(clip_resample(c, r), t)
            IN  /\ frame_count(d)
                    = (((frame_count(c) * r) \div c.sample_rate) * t) \div r
                /\ Len(d.samples) = frame_count(d) * d.channels)

\* a rotation has resampled a track's clip to another rate
C21_Witness ==
    /\ ctrl.pc = "rotated"
    /\ tracks[1].clip # None
    /\ Unwrap(tracks[1].clip).sample_rate # sample_rate
    /\ Len(Unwrap(tracks[1].clip).samples) >= 2


\* the control thread is between two operations, its last launch succeeded
\* and the streams it holds are running
StreamsRunning ==
    /\ ctrl.pc = "idle"
    /\ error = None
    /\ streams["held"] # None
    /\ Unwrap(streams["held"]).input_playing
    /\ Unwrap(streams["held"]).output_playing

\* C22: after any sequence of control-layer operations, whenever streams are
\* running every clip the tracks hold has the engine's active sample rate
C22_ClipsAtEngineRate ==
    StreamsRunning => \A c \in TrackClips : c.sample_rate = sample_rate


----------------------------------------------------------------------------
(* SpecLive: the output callback is scheduled fairly.  The streams are      *)
(* launched once; the control layer toggles the metronome and mutes tracks, *)
(* which publishes snapshots, while a loop of two frames plays.             *)

LiveOps == 2

LiveIter == 5

InitLive == InitWith({HostMono, HostStereo}, {1440000}, {1})

NextLive ==
    \/ Launch
    \/ KeyMetronome(LiveOps)
    \/ \E i \in 1..MaxSlot : TrackKeyMute(LiveOps, i)
    \/ \E s \in Slots : Output(s, LiveIter)

\* cpal keeps calling the output callback of a stream that plays
SpecLive == InitLive /\ [][NextLive]_vars /\ WF_vars(\E s \in Slots : Output(s, LiveIter))

\* publish number n is in the cell
Pending(n) == engine_tracks # None /\ Unwrap(engine_tracks).n = n

\* an output stream is running and has a whole loop of iterations ahead
KeepsRunning ==
    \E p \in Pairs :
        /\ p.output_playing
        /\ p.pc # "panicked"
        /\ p.iters + CeilL * p.input_channels <= LiveIter

\* C23: while an output stream keeps running, every snapshot published with
\* set_tracks is eventually adopted by the output callback or overwritten by
\* a newer publish; it never stays pending forever
C23_PublishEventuallyVisible ==
    \A n \in 1..LiveOps :
        (Pending(n) /\ KeepsRunning) ~> (n \in Range(hist.ttaken) \/ hist.tpub > n)

\* a published snapshot has been adopted by the running callback
C23_Witness ==
    /\ hist.tpub >= 1
    /\ hist.tpub \in Range(hist.ttaken)
    /\ engine_tracks = None
    /\ \E p \in Pairs : p.output_playing /\ p.tracks = tracks


\* the pair with the identity of p after the step, if it is still there
Same(p, q) == p.id = q.id

\* C24: a relaunch discards the prior ring buffer.  The ring buffer of a new
\* pair starts with its own zeros; what a pair's output callback has popped,
\* followed by what its buffer holds, is those zeros followed by what its own
\* input callback pushed; and a buffer changes only by a push of its own
\* input callback or a pop of its own output callback
C24_RingDiscarded ==
    /\ [](\A p \in Pairs : p.popped \o p.ring = Zeros(p.buffer_size) \o p.accepted)
    /\ [][\A q \in Pairs' :
            IF \E p \in Pairs : Same(p, q)
            THEN \A p \in Pairs :
                    (Same(p, q) /\ q.ring # p.ring) =>
                        \/ /\ q.pushed = p.pushed + 1
                           /\ q.ring = Append(p.ring, q.pushed)
                           /\ q.popped = p.popped
                        \/ /\ p.ring # <<>>
                           /\ q.popped = Append(p.popped, Head(p.ring))
                           /\ q.ring = Tail(p.ring)
                           /\ q.pushed = p.pushed
            ELSE /\ q.ring = Zeros(q.buffer_size)
                 /\ q.popped = <<>>
                 /\ q.accepted = <<>>]_vars

\* the streams have been relaunched, the pair replaced had captured a sample,
\* and the new output callback has popped from its own buffer
C24_Witness ==
    /\ ctrl.pc = "idle"
    /\ ctrl.launches = 2
    /\ streams["held"] # None
    /\ Unwrap(streams["held"]).id = 2
    /\ Unwrap(streams["held"]).popped # <<>>
    /\ Unwrap(streams["held"]).pushed >= 1


\* C25: when should_loop() is true at the end of an iteration the callback
\* sets the position to 0 and publishes into the recorded-clip cell a Clip
\* with the negotiated channel count and sample rate whose samples are the
\* feedback values, popped or held, of every output sample since the previous
\* reset, in order, and leaves the recording buffer empty
C25_LoopPublishesRecording ==
    [][\A p \in Pairs : \A q \in Pairs' :
          Same(p, q) =>
              /\ (p.pc = "loop_beats" /\ q.pc # "loop_beats") =>
                    (q.pc = "reset" <=> should_loop(p.bt, beats))
              /\ (p.pc = "reset" /\ q.pc # "reset") =>
                    (sample' = 0 /\ q.pc = "publish" /\ q.recording = p.recording)
              /\ (p.pc = "publish" /\ q.pc # "publish") =>
                    /\ q.recording = <<>>
                    /\ recorded_clip' # None
                    /\ LET c == Unwrap(recorded_clip').clip
                       IN  /\ c.channels
                                = Unwrap(Unwrap(get_input_device(settings)).default_config)
                           /\ c.sample_rate = Unwrap(get_sample_rate(settings))
                           /\ c.samples = [k \in 1..Len(p.recording) |-> <<p.recording[k], 1>>]
              /\ (p.pc # "publish" /\ q.recording # p.recording) =>
                    /\ p.pc = "advance"
                    /\ q.pc = "mix"
                    /\ q.recording = Append(p.recording, q.last_feedback)
                    /\ q.last_feedback
                         = IF p.ring = <<>> THEN p.last_feedback ELSE Head(p.ring)]_vars

\* a loop of more than one sample has been published and the buffer is empty
C25_Witness ==
    /\ sample = 0
    /\ recorded_clip # None
    /\ Len(Unwrap(recorded_clip).clip.samples) >= 2
    /\ \E p \in Pairs : p.pc = "on_beat" /\ p.recording = <<>> /\ p.looped


----------------------------------------------------------------------------
(* SpecMix: the mix of one output sample.  From the state of InitClip with  *)
(* a clip of MaxClipLen samples on the track, the control layer toggles the *)
(* metronome, mutes the track and turns its volume while the callback runs. *)

MixOps == 2

MixIter == 2

InitMix ==
    /\ InitClip
    /\ clip = None
    /\ tracks[1].clip # None
    /\ Len(Unwrap(tracks[1].clip).samples) = MaxClipLen

NextMix ==
    \/ KeyMetronome(MixOps)
    \/ \E i \in 1..MaxSlot :
          \/ TrackKeyMute(MixOps, i)
          \/ RotateTrackVolume(MixOps, i)
    \/ \E s \in Slots : Output(s, MixIter)

SpecMix == InitMix /\ [][NextMix]_vars

\* what a track adds to the output sample: its clip's sample at the position
\* and channel times 0 when it is muted and times volume / 100 otherwise;
\* nothing without a clip
TrackTerm(t, index, channel) ==
    IF t.clip = None THEN <<0, 1>>
    ELSE FracMul(clip_sample(Unwrap(t.clip), index, channel),
                 IF t.muted THEN <<0, 1>> ELSE Frac(t.volume, 100))

RECURSIVE TrackTerms(_, _, _, _)
TrackTerms(tr, n, index, channel) ==
    IF n = 0 THEN <<0, 1>>
    ELSE FracAdd(TrackTerms(tr, n - 1, index, channel), TrackTerm(tr[n], index, channel))

\* C26: each output sample is the feedback sample, plus the metronome
\* contribution only when the metronome flag is on, plus the sum over the
\* tracks of the active TrackSet of the clip sample at the current position
\* and channel times the track's volume factor (the mix keeps the track sum
\* in hundredths)
C26_OutputSample ==
    [][\A p \in Pairs : \A q \in Pairs' :
          (Same(p, q) /\ p.pc = "mix" /\ q.pc = "loop") =>
              /\ q.target # None
              /\ Unwrap(q.target).feedback = p.last_feedback
              /\ (Unwrap(q.target).metronome # None) <=> metronome
              /\ Unwrap(q.target).tracks
                    = FracMul(TrackTerms(p.tracks, Len(p.tracks), sample, p.channel),
                              <<100, 1>>)]_vars

\* a sample has been mixed with the metronome on and a muted track whose
\* clip is not silent at the position
C26_Witness ==
    \E p \in Pairs :
        /\ p.pc = "loop"
        /\ Unwrap(p.target).metronome # None
        /\ p.tracks[1].muted
        /\ p.tracks[1].clip # None
        /\ clip_sample(Unwrap(p.tracks[1].clip), sample, p.channel) \notin {<<0, 1>>, NaN}
        /\ Unwrap(p.target).tracks = <<0, 1>>


----------------------------------------------------------------------------
(* SpecBeat: the beat test.  Tempos that put the first frames of a loop     *)
(* just before and just after a beat at 44100 and 48000 Hz (0.9995 and      *)
(* 1.0005 beats per frame), turned by the control layer while the callback  *)
(* runs.                                                                    *)

BeatOps == 1

BeatIter == 6

BeatBpms == {2644677, 2647323, 2878560, 2881440}

InitBeat == InitWith({HostMono, HostStereo}, BeatBpms, {3})

NextBeat ==
    \/ Launch
    \/ RotateBpm(BeatOps)
    \/ \E s \in Slots : Output(s, BeatIter)

SpecBeat == InitBeat /\ [][NextBeat]_vars

\* the frames in a minute and the part of the beat position past the last
\* whole beat, in units of 1 / BeatUnit of a beat
BeatUnit == 60 * sample_rate

PastBeat == (sample * bpm) % BeatUnit

\* PastBeat / BeatUnit < 1 / 1000
ShortlyAfterBeat == sample_rate > 0 /\ PastBeat <= (BeatUnit - 1) \div 1000

\* PastBeat / BeatUnit > 999 / 1000
ShortlyBeforeBeat == sample_rate > 0 /\ BeatUnit - PastBeat <= (BeatUnit - 1) \div 1000

\* C27: the beat test of an output iteration is true exactly when the
\* fractional beat position is below 0.001, that is shortly after a beat; a
\* position shortly before the next beat (fraction above 0.999) is not on the
\* beat.
C27_OnBeatShortlyAfter ==
    [][\A p \in Pairs : \A q \in Pairs' :
          (Same(p, q) /\ p.pc = "on_beat" /\ q.pc # "on_beat") =>
              (q.on_beat <=> ShortlyAfterBeat)]_vars

\* an iteration at a position past the start of the loop and shortly before
\* a beat has found is_on_beat() false
C27_Witness ==
    \E p \in Pairs :
        /\ p.pc = "advance"
        /\ ~p.on_beat
        /\ sample > 0
        /\ ShortlyBeforeBeat

\* C27 as stated: the beat test is true within 0.001 of a beat on both sides
C27_OnBeatBothSides ==
    [][\A p \in Pairs : \A q \in Pairs' :
          (Same(p, q) /\ p.pc = "on_beat" /\ q.pc # "on_beat") =>
              (q.on_beat <=> (ShortlyAfterBeat \/ ShortlyBeforeBeat))]_vars


----------------------------------------------------------------------------
(* Relaunches and the shared engine, under SpecLaunch and SpecResample.     *)

\* the output callbacks cpal is running
LiveOutputs == {p \in Pairs : p.output_playing}

\* C28: at most one output callback is live against the shared engine at any
\* time: during launch_streams the streams held before have stopped before
\* the new ones start running, so no step of one output callback comes
\* between two steps of another.
C28_OneOutputCallback ==
    /\ [](Cardinality(LiveOutputs) <= 1)
    /\ [][streams["new"] # None /\ streams'["new"] # None
             /\ ~Unwrap(streams["new"]).output_playing
             /\ Unwrap(streams'["new"]).output_playing
          => \A p \in Pairs : ~p.output_playing]_vars


\* a launch_streams call has failed and the streams held before go on
FailedLaunch == ctrl.pc = "idle" /\ error # None /\ streams["held"] # None

\* C29: a launch_stream call that fails, at whatever step, leaves the shared
\* engine as it found it: after it the engine's sample_rate field is still
\* the rate of the streams that keep running.
C29_FailedLaunchKeepsRate ==
    FailedLaunch => sample_rate = Unwrap(streams["held"]).sample_rate


----------------------------------------------------------------------------
(* SpecRelaunch: F5 while a loop of two frames is being played.             *)

RelaunchOps == 1

RelaunchIter == 3

InitRelaunch == InitWith({HostMono, HostStereo}, {1440000}, {1})

NextRelaunch ==
    \/ Launch
    \/ KeyF5(RelaunchOps)
    \/ \E s \in Slots : Output(s, RelaunchIter)

SpecRelaunch == InitRelaunch /\ [][NextRelaunch]_vars

\* C30: an output callback's recording buffer follows the engine position:
\* at the end of every iteration that does not reset the loop it holds
\* position * channels + channel counter samples, and when the loop reset
\* fires it holds channels * position samples, which become the published
\* clip; this holds for the callback of a relaunch as well.
C30_RecordingFollowsPosition ==
    [][\A p \in Pairs : \A q \in Pairs' :
          Same(p, q) =>
             /\ (p.pc = "loop_beats" /\ q.pc = "on_beat") =>
                   Len(q.recording) = sample' * q.input_channels + q.channel
             /\ (p.pc = "reset" /\ q.pc = "publish") =>
                   Len(p.recording) = sample * p.input_channels]_vars


----------------------------------------------------------------------------
(* Playback against recording, under SpecStream.                            *)

\* C31: the j-th output sample after a loop reset (j from 0; its feedback
\* value is the j-th of the recording) reads the track clips at frame
\* j \div channels and channel j % channels, the buffer position at which
\* that feedback value is stored in the recorded clip.
C31_PlaybackAligned ==
    [][\A p \in Pairs : \A q \in Pairs' :
          (Same(p, q) /\ p.pc = "mix" /\ q.pc = "loop") =>
              LET j == Len(p.recording) - 1
              IN  /\ Unwrap(q.target).sample_index = j \div p.input_channels
                  /\ Unwrap(q.target).channel = j % p.input_channels]_vars


----------------------------------------------------------------------------
(* SpecHandoff: the hand-off of the tracks across a relaunch.  From the     *)
(* state of InitMix the control layer mutes the track and rotates the       *)
(* sample rate in the settings tab while the callbacks run.                 *)

HandoffOps == 2

HandoffIter == 1

InitHandoff == InitMix

NextHandoff ==
    \/ \E i \in 1..MaxSlot : TrackKeyMute(HandoffOps, i)
    \/ RotateSampleRate(HandoffOps)
    \/ RotateLaunch
    \/ LaunchBuildOutput
    \/ LaunchPlayInput
    \/ LaunchPlayOutput
    \/ LaunchSwap
    \/ \E s \in Slots : Output(s, HandoffIter)

SpecHandoff == InitHandoff /\ [][NextHandoff]_vars

\* C32: the TrackSet of an output callback never moves backwards: a
\* callback whose active TrackSet is the control thread's current one (the
\* one it was launched with, or the latest publish) never replaces it with
\* a snapshot that differs from it, that is with one published before the
\* control thread's TrackSet became what it is.
C32_TracksNeverBackwards ==
    [][\A p \in Pairs : \A q \in Pairs' :
          (Same(p, q) /\ p.pc = "take" /\ p.tracks = tracks) => q.tracks = tracks]_vars


----------------------------------------------------------------------------
(* SpecTempo: the tempos and loop lengths the control layer can set, zero   *)
(* included (App::rotate clamps both at 0), under a running callback.       *)

TempoIter == 3

\* frames looked ahead for a loop point
Horizon == 4

TempoBpms == {0, 1440000, 2880000}

InitTempo == InitWith({HostMono, HostStereo}, TempoBpms, {0, 1})

NextTempo ==
    \/ Launch
    \/ \E s \in Slots : Output(s, TempoIter)

SpecTempo == InitTempo /\ [][NextTempo]_vars

\* should_loop() is true at one of the next Horizon positions
LoopPointAhead ==
    \E m \in sample..(sample + Horizon) : should_loop(beat(m, sample_rate, bpm), beats)

\* C33: whatever tempo and loop length are set, zero included, a running
\* output callback reaches a loop point and publishes a recorded clip: one
\* that has rendered TempoIter samples has published a clip or has a loop
\* point within the next Horizon frames.
C33_LoopPointReached ==
    \A p \in Pairs :
        (p.output_playing /\ p.pc = "on_beat" /\ p.iters = TempoIter) =>
            (hist.cpub > 0 \/ LoopPointAhead)

----------------------------------------------------------------------------
(* The selected indices, under SpecSettings.                                *)

\* an Option<usize> that is None or an index into list
ValidIndex(index, list) == index = None \/ Unwrap(index) \in 0..(Len(list) - 1)

\* C34: after any sequence of query_devices and rotations, with any
\* offsets, each selected index (input device, output device, sample rate,
\* buffer size) is None or a valid index into its current list.
C34_IndicesValid ==
    /\ ValidIndex(settings.input_device, settings.input_devices)
    /\ ValidIndex(settings.output_device, settings.output_devices)
    /\ ValidIndex(settings.sample_rate, settings.sample_rates)
    /\ ValidIndex(settings.buffer_size, settings.buffer_sizes)

\* rotations have wrapped the output device and the buffer size around to
\* the last entry of their lists, and no sample rate is left to select
C34_Witness ==
    /\ ctrl.ops >= 2
    /\ Len(settings.output_devices) > 1
    /\ settings.output_device = Some(Len(settings.output_devices) - 1)
    /\ Len(settings.buffer_sizes) > 1
    /\ settings.buffer_size = Some(Len(settings.buffer_sizes) - 1)
    /\ settings.sample_rates = <<>>
    /\ settings.sample_rate = None


----------------------------------------------------------------------------
(* SpecFade: resampling at an unchanged rate.  The track holds a clip long  *)
(* enough for Clip::fade_factor to have a window (1000 samples or more);    *)
(* the control layer rotates the buffer size in the settings tab, which     *)
(* resamples the tracks at the selected rate and relaunches the streams.    *)

FadeOps == 3

\* samples of the clip on the track
FadeClipLen == 1000

InitFade ==
    /\ bpm = 2880000
    /\ beats = 1
    /\ sample = 0
    /\ metronome = FALSE
    /\ engine_tracks = None
    /\ recorded_clip = None
    /\ host \in {HostDuo, HostStereo}
    /\ settings = [query_devices(NewSettings, host) EXCEPT !.delay = InitDelay]
    /\ sample_rate = Unwrap(get_sample_rate(settings))
    /\ \E channels \in {1, 2} :
          tracks = [DefaultTracks EXCEPT
                       ![1].clip = Some(ClipOf(channels, sample_rate, FadeClipLen))]
    /\ clip = None
    /\ error = None
    /\ streams = [s \in Slots |->
          IF s = "held"
          THEN Some([NewPair(2, Unwrap(Unwrap(get_input_device(settings)).default_config),
                             sample_rate, settings.delay, tracks)
                        EXCEPT !.input_playing = TRUE, !.output_playing = TRUE])
          ELSE None]
    /\ ctrl = [pc |-> "idle", ops |-> 0, launches |-> 2]
    /\ hist = [tpub |-> 0, ttaken |-> <<>>, cpub |-> 0, ctaken |-> <<>>]

NextFade ==
    \/ RotateBufferSize(FadeOps)
    \/ RotateLaunch
    \/ LaunchBuildOutput
    \/ LaunchPlayInput
    \/ LaunchPlayOutput
    \/ LaunchSwap

SpecFade == InitFade /\ [][NextFade]_vars

\* C35: resampling a clip to its own sample rate leaves its frame count and
\* its stored samples as they are, so a Tracks::resample at an unchanged
\* rate (a rotation in the settings tab that keeps the rate) does not alter
\* the stored audio of any track.
C35_ResampleSameRateIdentity ==
    [][(ctrl'.pc = "rotated" /\ get_sample_rate(settings') # None) =>
          \A n \in 1..TrackCount :
              (/\ tracks[n].clip # None
               /\ Unwrap(tracks[n].clip).sample_rate = Unwrap(get_sample_rate(settings'))) =>
                  /\ tracks'[n].clip # None
                  /\ frame_count(Unwrap(tracks'[n].clip)) = frame_count(Unwrap(tracks[n].clip))
                  /\ Unwrap(tracks'[n].clip).samples = Unwrap(tracks[n].clip).samples]_vars

====
